---- MODULE Spec2Model ----
(***************************************************************************)
(* A model of app.py: the page-range convention of pdf_to_docx, the        *)
(* paragraph translator translate_docx_by_paragraph with its cache and     *)
(* fallback, and the Convert handler of main.                              *)
(*                                                                         *)
(* Texts and file names are sequences of one-character strings, so that    *)
(* strip, lstrip(" "), endswith, Path.stem and Path.with_suffix are        *)
(* computed character by character, as the Python code computes them.     *)
(***************************************************************************)
EXTENDS Integers, Sequences, FiniteSets, TLC

VARIABLES
    entry,            \* the function called at top level: main or one of the two helpers
    ui,               \* the widgets' values when the script runs (main, 101-183)
    pc,               \* position in main / in the called function
    output_filename,  \* main's local output_filename (178, 188)
    sp, ep,           \* main's locals sp, ep (191-192) = pdf_to_docx's start_page, end_page
    error,            \* st.error was shown (194)
    files,            \* the temp files: path -> content
    convert_call,     \* the arguments cv.convert received (30)
    final_docx_path,  \* main's local final_docx_path (216, 229)
    steps,            \* the pipeline steps performed so far, in order
    download,         \* the st.download_button offered (263-268)
    tpc,              \* position in translate_docx_by_paragraph
    t_paths,          \* its input_path and output_path
    doc,              \* the Document it holds: body paragraphs and table-cell paragraphs
    cache,            \* its cache dict (51)
    idx,              \* paragraphs of the current loop already processed
    log               \* one record per safe_translate call made so far

vars == <<entry, ui, pc, output_filename, sp, ep, error, files, convert_call,
          final_docx_path, steps, download, tpc, t_paths, doc, cache, idx, log>>

mainVars == <<ui, pc, output_filename, sp, ep, error, convert_call,
              final_docx_path, steps, download>>

(***************************************************************************)
(* Optional values: Python's None and a present value.                     *)
(***************************************************************************)
None == <<>>
Some(x) == <<x>>
Get(o) == o[1]

Max(a, b) == IF a >= b THEN a ELSE b

(***************************************************************************)
(* Strings.                                                                *)
(***************************************************************************)
\* str.isspace() of one character, for the characters of the model
IsSpace(c) == c \in {" ", "\t", "\n"}

RECURSIVE LStripWs(_)
LStripWs(t) == IF t # <<>> /\ IsSpace(Head(t)) THEN LStripWs(Tail(t)) ELSE t

RECURSIVE RStripWs(_)
RStripWs(t) ==
    IF t # <<>> /\ IsSpace(t[Len(t)]) THEN RStripWs(SubSeq(t, 1, Len(t) - 1)) ELSE t

\* text.strip()
Strip(t) == RStripWs(LStripWs(t))

RECURSIVE LStripSp(_)
\* text.lstrip(" ")
LStripSp(t) == IF t # <<>> /\ Head(t) = " " THEN LStripSp(Tail(t)) ELSE t

RECURSIVE RStripSp(_)
\* text.rstrip(" ")
RStripSp(t) ==
    IF t # <<>> /\ t[Len(t)] = " " THEN RStripSp(SubSeq(t, 1, Len(t) - 1)) ELSE t

\* " " * n
Spaces(n) == [i \in 1..n |-> " "]

(***************************************************************************)
(* The inputs of the model.                                                *)
(***************************************************************************)
\* paragraphs per document drawn at Init (body and table cells together)
MaxParas == 2

\* whitespace around a paragraph's words: none, a space, a tab next to the
\* words with a space outside it, a space next to the words with a tab outside
LeftPads == {<<>>, <<" ">>, <<" ", "\t">>}
RightPads == {<<>>, <<" ">>, <<"\t", " ">>}
BlankTexts == {<<>>, <<" ">>, <<"\t", " ">>}
Texts ==
    BlankTexts \cup {l \o <<"a">> : l \in LeftPads} \cup {<<"a">> \o r : r \in RightPads}
               \cup {<<" ", "\t", "a", "\t", " ">>, <<"b">>}

\* a document: its body paragraphs' texts, then its table cells' paragraphs' texts
MkDoc(b, c) == [kind |-> "docx", body |-> b, cells |-> c]
SeqsUpTo(S, n) == UNION {[1..k -> S] : k \in 0..n}
\* the end-to-end scenario: "Hello", "  Hello  ", "", "World"
ExampleDoc ==
    MkDoc(<<(<<"a">>), (<<" ", " ", "a", " ", " ">>), (<<>>), (<<"b">>)>>, <<>>)

\* the documents translate_docx_by_paragraph is called on
UnitDocs ==
    UNION {{MkDoc(b, c) : c \in SeqsUpTo(Texts, MaxParas - Len(b))} :
              b \in SeqsUpTo(Texts, MaxParas)}
        \cup {ExampleDoc}

\* what translator.translate may do: raise, return None, return a string
Raise == [kind |-> "raise", val |-> <<>>]
RetNone == [kind |-> "none", val |-> <<>>]
Ret(s) == [kind |-> "str", val |-> s]
NoCall == [kind |-> "nocall", val |-> <<>>]
Translations == {<<"X">>, <<"Y", " ", "Z">>}
Outcomes == {Raise, RetNone, Ret(<<>>)} \cup {Ret(s) : s \in Translations}

(***************************************************************************)
(* translate_docx_by_paragraph                                             *)
(***************************************************************************)
EmptyCache == [k \in {} |-> <<>>]

\* line 55: `if not stripped`
IsBlankUnstripped(text) == text = <<>>
IsBlank(text) == Strip(text) = <<>>

\* line 58: `if stripped in cache`
CacheHit(c, stripped) == stripped \in DOMAIN c

\* line 72: cache[stripped] = translated
CacheStoreNoop(c, k, v) == c
CachePut(c, k, v) == [x \in DOMAIN c \cup {k} |-> IF x = k THEN v ELSE c[x]]

\* lines 63-70: the cache after a call that raised or returned nothing: untouched
CacheOnFailureKeepsOriginal(c, stripped, text) == CachePut(c, stripped, text)
CacheOnFailure(c, stripped, text) == c

\* lines 66 and 70: `return text`
FallbackStripped(text) == Strip(text)
Fallback(text) == text

\* line 68, `not translated`: None or the empty string
IsEmptyResult(o) == o.kind = "none" \/ (o.kind = "str" /\ o.val = <<>>)

\* lines 74-77
RepadAllWhitespace(text, translated) ==
    SubSeq(text, 1, Len(text) - Len(LStripWs(text))) \o translated
        \o SubSeq(text, Len(RStripWs(text)) + 1, Len(text))
Repad(text, translated) ==
    LET leading == Len(text) - Len(LStripSp(text))
        trailing == Len(text) - Len(RStripSp(text))
    IN  Spaces(leading) \o translated \o Spaces(trailing)

\* safe_translate reaches translator.translate for this text and cache
NeedsCall(text, c) == ~IsBlank(text) /\ ~CacheHit(c, Strip(text))

\* safe_translate(text) with the cache c, when translator.translate (if it is
\* reached) does o: the value returned, the cache afterwards, whether the
\* translator was called (and with what) and whether the cache was looked up
SafeTranslate(text, c, o) ==
    LET stripped == Strip(text) IN
    IF IsBlank(text) THEN
        [ret |-> text, cache |-> c, called |-> FALSE, looked |-> FALSE,
         arg |-> <<>>, outcome |-> NoCall]
    ELSE IF CacheHit(c, stripped) THEN
        [ret |-> Repad(text, c[stripped]), cache |-> c, called |-> FALSE,
         looked |-> TRUE, arg |-> <<>>, outcome |-> NoCall]
    ELSE IF o.kind = "raise" THEN
        [ret |-> Fallback(text), cache |-> CacheOnFailure(c, stripped, text),
         called |-> TRUE, looked |-> TRUE, arg |-> stripped, outcome |-> o]
    ELSE IF IsEmptyResult(o) THEN
        [ret |-> Fallback(text), cache |-> CacheOnFailure(c, stripped, text),
         called |-> TRUE, looked |-> TRUE, arg |-> stripped, outcome |-> o]
    ELSE
        [ret |-> Repad(text, o.val), cache |-> CachePut(c, stripped, o.val),
         called |-> TRUE, looked |-> TRUE, arg |-> stripped, outcome |-> o]

\* doc = Document(input_path); translator = ...; cache = {}
OpenDoc ==
    /\ tpc = "open"
    /\ files[t_paths.input].kind = "docx"
    /\ doc' = files[t_paths.input]
    /\ cache' = EmptyCache
    /\ idx' = 0
    /\ log' = <<>>
    /\ tpc' = "body"
    /\ UNCHANGED <<entry, mainVars, files, t_paths>>

\* one iteration that leaves the loop when the translation failed
ParaStepBreak(loop) ==
    LET text == doc[loop][idx + 1] IN
    \E o \in (IF NeedsCall(text, cache) THEN Outcomes ELSE {NoCall}) :
        LET r == SafeTranslate(text, cache, o) IN
        /\ doc' = [doc EXCEPT ![loop][idx + 1] = r.ret]
        /\ cache' = r.cache
        /\ idx' = (IF r.called /\ (o.kind = "raise" \/ IsEmptyResult(o))
                     THEN Len(doc[loop]) ELSE idx + 1)
        /\ log' = Append(log, [loop |-> loop, text |-> text, ret |-> r.ret,
                               called |-> r.called, looked |-> r.looked,
                               arg |-> r.arg, outcome |-> r.outcome])

\* one iteration of a loop: para.text = safe_translate(para.text)
ParaStep(loop) ==
    LET text == doc[loop][idx + 1] IN
    \E o \in (IF NeedsCall(text, cache) THEN Outcomes ELSE {NoCall}) :
        LET r == SafeTranslate(text, cache, o) IN
        /\ doc' = [doc EXCEPT ![loop][idx + 1] = r.ret]
        /\ cache' = r.cache
        /\ idx' = idx + 1
        /\ log' = Append(log, [loop |-> loop, text |-> text, ret |-> r.ret,
                               called |-> r.called, looked |-> r.looked,
                               arg |-> r.arg, outcome |-> r.outcome])

\* for para in doc.paragraphs
TranslateBody ==
    /\ tpc = "body"
    /\ idx < Len(doc.body)
    /\ ParaStep("body")
    /\ UNCHANGED <<entry, mainVars, files, t_paths, tpc>>

\* doc.paragraphs is exhausted: on to doc.tables
EndBody ==
    /\ tpc = "body"
    /\ idx = Len(doc.body)
    /\ tpc' = "cells"
    /\ idx' = 0
    /\ UNCHANGED <<entry, mainVars, files, t_paths, doc, cache, log>>

\* for table / row / cell / para in cell.paragraphs
TranslateCell ==
    /\ tpc = "cells"
    /\ idx < Len(doc.cells)
    /\ ParaStep("cells")
    /\ UNCHANGED <<entry, mainVars, files, t_paths, tpc>>

\* doc.save(str(output_path))
SaveDoc ==
    /\ tpc = "cells"
    /\ idx = Len(doc.cells)
    /\ files' = [p \in DOMAIN files \cup {t_paths.output} |->
                    IF p = t_paths.output THEN doc ELSE files[p]]
    /\ tpc' = "saved"
    /\ UNCHANGED <<entry, mainVars, t_paths, doc, cache, idx, log>>

(***************************************************************************)
(* File names: str.lower, str.endswith and pathlib's name, suffix, stem    *)
(* and with_suffix, on sequences of characters.                            *)
(***************************************************************************)
DotDocx == <<".", "d", "o", "c", "x">>
DotPdf == <<".", "p", "d", "f">>
Marker == <<"_", "t", "r", "a", "n", "s", "l", "a", "t", "e", "d">>
DocxMime == "application/vnd.openxmlformats-officedocument.wordprocessingml.document"
PdfMime == "application/pdf"

LowerChar(c) ==
    CASE c = "D" -> "d" [] c = "O" -> "o" [] c = "C" -> "c" [] c = "X" -> "x"
      [] c = "R" -> "r" [] OTHER -> c
Lower(s) == [i \in 1..Len(s) |-> LowerChar(s[i])]

EndsWith(s, suf) ==
    Len(s) >= Len(suf) /\ SubSeq(s, Len(s) - Len(suf) + 1, Len(s)) = suf

\* the last index of character c in s, 0 when there is none (str.rfind, 1-based)
RFind(s, c) ==
    LET at == {i \in 1..Len(s) : s[i] = c} IN
    IF at = {} THEN 0 ELSE CHOOSE i \in at : \A j \in at : j <= i

\* Path(p).name: what follows the last "/"
PathName(p) == SubSeq(p, RFind(p, "/") + 1, Len(p))

\* Path(p).suffix: from the last dot of the name, unless the dot starts or ends it
PathSuffix(p) ==
    LET name == PathName(p)
        i == RFind(name, ".")
    IN  IF 1 < i /\ i < Len(name) THEN SubSeq(name, i, Len(name)) ELSE <<>>

\* Path(p).stem
PathStem(p) ==
    LET name == PathName(p) IN SubSeq(name, 1, Len(name) - Len(PathSuffix(p)))

\* Path(p).with_suffix(suffix).name
WithSuffixName(p, suffix) == PathStem(p) \o suffix

\* lines 187-188
EnsureDocx(name) == IF ~EndsWith(Lower(name), DotDocx) THEN name \o DotDocx ELSE name

(***************************************************************************)
(* pdf_to_docx                                                             *)
(***************************************************************************)
\* the largest page number a widget holds, and the largest a direct caller passes
MaxPage == 3
MaxPageArg == 5

\* convert_kwargs, and the multi_processing flag passed with them: a key that is
\* not set is None
ConvertKwargsOneBased(start_page, end_page, multi_processing) ==
    [start |-> IF start_page # None THEN Some(Max(Get(start_page), 0)) ELSE None,
     end |-> IF end_page # None THEN Some(Max(Get(end_page), 0)) ELSE None,
     multi_processing |-> multi_processing]
ConvertKwargs(start_page, end_page, multi_processing) ==
    [start |-> IF start_page # None THEN Some(Max(Get(start_page) - 1, 0)) ELSE None,
     end |-> IF end_page # None THEN Some(Max(Get(end_page) - 1, 0)) ELSE None,
     multi_processing |-> multi_processing]

\* what the converter may write to docx_path
ConvTexts == {<<>>, <<" ", "a">>}
ConvDocs ==
    {MkDoc(b, c) : b \in SeqsUpTo(ConvTexts, 1), c \in SeqsUpTo(ConvTexts, 1)}

EmptyFile == [kind |-> "empty"]
UploadedPdf == [kind |-> "upload"]
WriteFile(fs, path, content) ==
    [p \in DOMAIN fs \cup {path} |-> IF p = path THEN content ELSE fs[p]]

\* the body of pdf_to_docx: cv.convert(docx_path, ...) with the kwargs, cv.close();
\* in main, line 216 follows
PdfToDocx ==
    /\ pc = "convert"
    /\ convert_call' = Some(ConvertKwargs(sp, ep, ui.multi_processing))
    /\ \E d \in ConvDocs : files' = WriteFile(files, "tmp_docx", d)
    /\ steps' = Append(steps, "pdf_to_docx")
    /\ IF entry = "main"
         THEN final_docx_path' = Some("tmp_docx") /\ pc' = "translate"
         ELSE final_docx_path' = final_docx_path /\ pc' = "returned"
    /\ UNCHANGED <<entry, ui, output_filename, sp, ep, error, download,
                   tpc, t_paths, doc, cache, idx, log>>

(***************************************************************************)
(* main: the widgets, then the Convert handler                             *)
(***************************************************************************)
\* langs_dict's codes (138): the catalog is not empty
Langs == {"zh-TW", "fr"}

\* what the user may type as the base output file name (178)
Names ==
    {<<>>, <<"r">>, <<"r">> \o DotDocx, <<"R", ".", "D", "O", "C", "X">>,
     <<"r">> \o DotPdf, <<"d", "/", "r">> \o DotDocx, <<"r">> \o Marker,
     <<"r", ".", "v">>}

\* the widgets' values: number_input has min_value=1; target_lang_code is set
\* exactly when translate_enabled (151-160)
Widgets ==
    {w \in [uploaded_file : {None, Some("in.pdf")},
            start_page : 1..MaxPage, use_start : BOOLEAN,
            end_page : 1..MaxPage, use_end : BOOLEAN,
            multi_processing : BOOLEAN,
            translate_enabled : BOOLEAN,
            target_lang_code : {None} \cup {Some(l) : l \in Langs},
            convert_translated_to_pdf : BOOLEAN,
            output_filename : Names] :
        (w.target_lang_code # None) <=> w.translate_enabled}

\* the widgets' default values
DefaultWidgets ==
    [uploaded_file |-> None, start_page |-> 1, use_start |-> FALSE,
     end_page |-> 1, use_end |-> FALSE, multi_processing |-> FALSE,
     translate_enabled |-> FALSE, target_lang_code |-> None,
     convert_translated_to_pdf |-> FALSE, output_filename |-> <<"o", "u", "t">>]

NoFiles == [p \in {} |-> EmptyFile]
NoPaths == [input |-> "", output |-> ""]
NoDoc == MkDoc(<<>>, <<>>)

InitTranslator ==
    /\ tpc = "idle"
    /\ t_paths = NoPaths
    /\ doc = NoDoc
    /\ cache = EmptyCache
    /\ idx = 0
    /\ log = <<>>

InitLocals ==
    /\ error = FALSE
    /\ convert_call = None
    /\ final_docx_path = None
    /\ steps = <<>>
    /\ download = None

\* the script has run down to the button (line 183)
Init ==
    /\ entry = "main"
    /\ ui \in Widgets
    /\ pc = "button"
    /\ output_filename = ui.output_filename
    /\ sp = None
    /\ ep = None
    /\ files = NoFiles
    /\ InitLocals
    /\ InitTranslator

\* lines 193: the range check
RangeRejectedStrict(s, e) == s # None /\ e # None /\ Get(e) <= Get(s)
RangeRejected(s, e) == s # None /\ e # None /\ Get(e) < Get(s)

\* the button is pressed: lines 185-195
Click ==
    /\ pc = "button"
    /\ ui.uploaded_file # None
    /\ output_filename' = EnsureDocx(output_filename)
    /\ sp' = (IF ui.use_start THEN Some(ui.start_page) ELSE None)
    /\ ep' = (IF ui.use_end THEN Some(ui.end_page) ELSE None)
    /\ IF RangeRejected(sp', ep')
         THEN error' = TRUE /\ pc' = "rejected"
         ELSE error' = error /\ pc' = "write_temp"
    /\ UNCHANGED <<entry, ui, files, convert_call, final_docx_path, steps, download,
                   tpc, t_paths, doc, cache, idx, log>>

\* lines 198-205: the two temp files
WriteTemp ==
    /\ pc = "write_temp"
    /\ files' = WriteFile(WriteFile(files, "tmp_pdf", UploadedPdf), "tmp_docx", EmptyFile)
    /\ pc' = "convert"
    /\ UNCHANGED <<entry, ui, output_filename, sp, ep, error, convert_call,
                   final_docx_path, steps, download, tpc, t_paths, doc, cache, idx, log>>

\* line 219
TranslateWanted(w) == w.translate_enabled /\ w.target_lang_code # None

\* line 232
RenderWantedPdfOnly(w) == w.convert_translated_to_pdf
RenderWanted(w) == w.translate_enabled /\ w.convert_translated_to_pdf

\* lines 219-228: translate_docx_by_paragraph is called
StartTranslate ==
    /\ pc = "translate"
    /\ TranslateWanted(ui)
    /\ files' = WriteFile(files, "tmp_translated_docx", EmptyFile)
    /\ t_paths' = [input |-> Get(final_docx_path), output |-> "tmp_translated_docx"]
    /\ tpc' = "open"
    /\ steps' = Append(steps, "translate")
    /\ pc' = "translating"
    /\ UNCHANGED <<entry, ui, output_filename, sp, ep, error, convert_call,
                   final_docx_path, download, doc, cache, idx, log>>

\* line 219 is false
SkipTranslate ==
    /\ pc = "translate"
    /\ ~TranslateWanted(ui)
    /\ pc' = "output"
    /\ UNCHANGED <<entry, ui, output_filename, sp, ep, error, files, convert_call,
                   final_docx_path, steps, download, tpc, t_paths, doc, cache, idx, log>>

\* translate_docx_by_paragraph has returned: line 229
EndTranslate ==
    /\ pc = "translating"
    /\ tpc = "saved"
    /\ final_docx_path' = Some(t_paths.output)
    /\ pc' = "output"
    /\ UNCHANGED <<entry, ui, output_filename, sp, ep, error, files, convert_call,
                   steps, download, tpc, t_paths, doc, cache, idx, log>>

\* lines 251-255
DocxDownloadName(w, name) ==
    IF w.translate_enabled THEN PathStem(name) \o Marker \o DotDocx ELSE name

\* line 242
PdfDownloadNameKeepSuffix(name) == name
PdfDownloadName(name) == WithSuffixName(name, DotPdf)

\* lines 232-244, then 262-268: docx2pdf_convert, and the PDF is offered
Render ==
    /\ pc = "output"
    /\ RenderWanted(ui)
    /\ LET src == Get(final_docx_path)
           pdf == [kind |-> "pdf", src |-> src, of |-> files[src]]
       IN  /\ files' = WriteFile(files, "tmp_pdf_out", pdf)
           /\ download' = Some([file_name |-> PdfDownloadName(output_filename),
                                mime |-> PdfMime,
                                label |-> "Download translated PDF",
                                data |-> pdf])
    /\ steps' = steps \o <<"docx2pdf", "download">>
    /\ pc' = "done"
    /\ UNCHANGED <<entry, ui, output_filename, sp, ep, error, convert_call,
                   final_docx_path, tpc, t_paths, doc, cache, idx, log>>

\* lines 245-260, then 262-268: the DOCX is offered
ServeDocx ==
    /\ pc = "output"
    /\ ~RenderWanted(ui)
    /\ download' = Some([file_name |-> DocxDownloadName(ui, output_filename),
                         mime |-> DocxMime,
                         label |-> IF ~ui.translate_enabled THEN "Download DOCX"
                                   ELSE "Download translated DOCX",
                         data |-> files[Get(final_docx_path)]])
    /\ steps' = Append(steps, "download")
    /\ pc' = "done"
    /\ UNCHANGED <<entry, ui, output_filename, sp, ep, error, files, convert_call,
                   final_docx_path, tpc, t_paths, doc, cache, idx, log>>

\* an external step raises, and nothing catches it: cv.convert (30)
ConvertFails ==
    /\ pc = "convert"
    /\ pc' = "failed"
    /\ UNCHANGED <<entry, ui, output_filename, sp, ep, error, files, convert_call,
                   final_docx_path, steps, download, tpc, t_paths, doc, cache, idx, log>>

\* Document(...) (48) or doc.save (90) raises
DocumentFails ==
    /\ tpc = "open" \/ (tpc = "cells" /\ idx = Len(doc.cells))
    /\ tpc' = "failed"
    /\ pc' = "failed"
    /\ UNCHANGED <<entry, ui, output_filename, sp, ep, error, files, convert_call,
                   final_docx_path, steps, download, t_paths, doc, cache, idx, log>>

\* docx2pdf_convert (237) raises, after the temp file of line 233 was made
RenderFails ==
    /\ pc = "output"
    /\ RenderWanted(ui)
    /\ files' = WriteFile(files, "tmp_pdf_out", EmptyFile)
    /\ steps' = Append(steps, "docx2pdf")
    /\ pc' = "failed"
    /\ UNCHANGED <<entry, ui, output_filename, sp, ep, error, convert_call,
                   final_docx_path, download, tpc, t_paths, doc, cache, idx, log>>

Next ==
    \/ Click
    \/ WriteTemp
    \/ PdfToDocx
    \/ StartTranslate
    \/ SkipTranslate
    \/ OpenDoc
    \/ TranslateBody
    \/ EndBody
    \/ TranslateCell
    \/ SaveDoc
    \/ EndTranslate
    \/ Render
    \/ ServeDocx
    \/ ConvertFails
    \/ DocumentFails
    \/ RenderFails

Spec == Init /\ [][Next]_vars

(***************************************************************************)
(* The two helpers called on their own, with any arguments.                *)
(***************************************************************************)
\* start_page, end_page: None or an int; an int below 1 is clamped
PageArgs == {None} \cup {Some(n) : n \in 0..MaxPageArg}

InitPdfToDocx ==
    /\ entry = "pdf_to_docx"
    /\ ui \in {[DefaultWidgets EXCEPT !.multi_processing = m] : m \in BOOLEAN}
    /\ pc = "convert"
    /\ output_filename = ui.output_filename
    /\ sp \in PageArgs
    /\ ep \in PageArgs
    /\ files = WriteFile(NoFiles, "tmp_pdf", UploadedPdf)
    /\ InitLocals
    /\ InitTranslator

InitTranslateDocx ==
    /\ entry = "translate_docx_by_paragraph"
    /\ ui = DefaultWidgets
    /\ pc = "called"
    /\ output_filename = ui.output_filename
    /\ sp = None
    /\ ep = None
    /\ \E d \in UnitDocs : files = WriteFile(NoFiles, "in.docx", d)
    /\ InitLocals
    /\ tpc = "open"
    /\ t_paths = [input |-> "in.docx", output |-> "out.docx"]
    /\ doc = NoDoc
    /\ cache = EmptyCache
    /\ idx = 0
    /\ log = <<>>

InitUnit == InitPdfToDocx \/ InitTranslateDocx

NextUnit ==
    \/ PdfToDocx
    \/ OpenDoc
    \/ TranslateBody
    \/ EndBody
    \/ TranslateCell
    \/ SaveDoc
    \/ ConvertFails
    \/ DocumentFails

SpecUnit == InitUnit /\ [][NextUnit]_vars

(***************************************************************************)
(* What the properties read: the document as it was opened, the paragraph  *)
(* a log entry is about, and whitespace counted without the model's strip. *)
(***************************************************************************)
Orig == files[t_paths.input]
ParaOf(d, i) == IF i <= Len(d.body) THEN d.body[i] ELSE d.cells[i - Len(d.body)]
OrigPara(i) == ParaOf(Orig, i)
Written(i) == ParaOf(doc, i)
Total == Len(Orig.body) + Len(Orig.cells)

AllWhitespace(t) == \A i \in 1..Len(t) : t[i] \in {" ", "\t", "\n"}
Trimmed(t) ==
    IF AllWhitespace(t) THEN <<>>
    ELSE LET ink == {i \in 1..Len(t) : t[i] \notin {" ", "\t", "\n"}}
             first == CHOOSE i \in ink : \A j \in ink : i <= j
             last == CHOOSE i \in ink : \A j \in ink : j <= i
         IN  SubSeq(t, first, last)
LeadingSpaces(t) ==
    CHOOSE k \in 0..Len(t) :
        (\A i \in 1..k : t[i] = " ") /\ (k = Len(t) \/ t[k + 1] # " ")
TrailingSpaces(t) ==
    CHOOSE k \in 0..Len(t) :
        (\A i \in 1..k : t[Len(t) + 1 - i] = " ") /\ (k = Len(t) \/ t[Len(t) - k] # " ")
Padded(t, translated) ==
    [i \in 1..LeadingSpaces(t) |-> " "] \o translated \o [i \in 1..TrailingSpaces(t) |-> " "]

Succeeded(e) == e.called /\ e.outcome.kind = "str" /\ e.outcome.val # <<>>
Failed(e) ==
    e.called /\ (e.outcome.kind \in {"raise", "none"}
                 \/ (e.outcome.kind = "str" /\ e.outcome.val = <<>>))
NumCalls == Cardinality({i \in 1..Len(log) : log[i].called})

\* this step ran safe_translate on one more paragraph
Stepped == Len(log') = Len(log) + 1
Last == log'[Len(log')]

(***************************************************************************)
(* C1: a paragraph that is not blank and whose trimmed form the translator *)
(* translated to a non-empty T is written back as the paragraph's leading  *)
(* ASCII spaces, T, and its trailing ASCII spaces; tabs and newlines       *)
(* around it are not written back.                                         *)
(***************************************************************************)
C1_PaddingReapplied ==
    \A i \in 1..Len(log) :
        Succeeded(log[i]) =>
            /\ ~AllWhitespace(OrigPara(i))
            /\ log[i].arg = Trimmed(OrigPara(i))
            /\ Written(i) = Padded(OrigPara(i), log[i].outcome.val)

C1_Witness ==
    \E i \in 1..Len(log) :
        /\ Succeeded(log[i])
        /\ OrigPara(i) = <<" ", "\t", "a", "\t", " ">>
        /\ Written(i) = <<" ">> \o log[i].outcome.val \o <<" ">>

(***************************************************************************)
(* C2: when the translator raises or returns None or "" for a paragraph's  *)
(* trimmed text, the paragraph keeps its original text, whitespace and     *)
(* all, and the step leaves the cache as it was.                           *)
(***************************************************************************)
C2_FailureKeepsOriginal ==
    [][(Stepped /\ Failed(Last)) =>
          /\ ParaOf(doc', Len(log')) = OrigPara(Len(log'))
          /\ doc' = doc
          /\ cache' = cache
          /\ Last.arg \notin DOMAIN cache']_vars

C2_Witness ==
    \E i \in 1..Len(log) :
        /\ Failed(log[i])
        /\ OrigPara(i) = <<" ", "\t", "a", "\t", " ">>
        /\ Written(i) = OrigPara(i)
        /\ <<"a">> \notin DOMAIN cache

(***************************************************************************)
(* C3: once the translator has returned a non-empty T for a trimmed text,  *)
(* every later paragraph, of the body or of a table cell, with that        *)
(* trimmed text gets T without another call; when no call fails, the calls *)
(* are as many as the distinct trimmed texts: two for the paragraphs       *)
(* "Hello", "  Hello  ", "", "World".                                      *)
(***************************************************************************)
C3_CacheReuse ==
    /\ \A i, j \in 1..Len(log) :
          (i < j /\ Succeeded(log[i]) /\ Trimmed(OrigPara(j)) = log[i].arg) =>
              /\ ~log[j].called
              /\ Written(j) = Padded(OrigPara(j), log[i].outcome.val)
    /\ (tpc = "saved" /\ \A i \in 1..Len(log) : ~Failed(log[i])) =>
          NumCalls = Cardinality({Trimmed(OrigPara(i)) : i \in 1..Total} \ {<<>>})
    /\ (tpc = "saved" /\ Orig = ExampleDoc /\ \A i \in 1..Len(log) : ~Failed(log[i])) =>
          NumCalls = 2

C3_Witness ==
    /\ tpc = "saved"
    /\ Orig = ExampleDoc
    /\ NumCalls = 2
    /\ Succeeded(log[1])
    /\ ~log[2].called
    /\ doc.body[2] = <<" ", " ">> \o log[1].outcome.val \o <<" ", " ">>
    /\ doc.body[3] = <<>>
    /\ Succeeded(log[4])

(***************************************************************************)
(* C4, as claimed: the translator is called at most once for each distinct *)
(* trimmed string, a string whose first call failed included.              *)
(***************************************************************************)
C4_AtMostOncePerString ==
    \A i, j \in 1..Len(log) :
        (i < j /\ log[i].called /\ log[j].called) => log[i].arg # log[j].arg

(***************************************************************************)
(* C4, amended: a paragraph that is not blank causes a call, of its        *)
(* trimmed text, exactly when no earlier call of that trimmed text         *)
(* returned a non-empty string; so a string is never called again after a  *)
(* success, and is called again at each occurrence after a failure.        *)
(***************************************************************************)
C4_OncePerSuccess ==
    \A j \in 1..Len(log) :
        ~AllWhitespace(OrigPara(j)) =>
            /\ log[j].called <=>
                  ~\E i \in 1..(j - 1) :
                      Succeeded(log[i]) /\ log[i].arg = Trimmed(OrigPara(j))
            /\ log[j].called => log[j].arg = Trimmed(OrigPara(j))

C4_Witness ==
    \E i, j \in 1..Len(log) :
        i < j /\ Failed(log[i]) /\ log[j].called /\ log[i].arg = log[j].arg

(***************************************************************************)
(* C5: a paragraph that is empty or all whitespace is written back         *)
(* unchanged, without a call of the translator and without a lookup in or  *)
(* a change of the cache.                                                  *)
(***************************************************************************)
C5_BlankUntouched ==
    [][(Stepped /\ AllWhitespace(OrigPara(Len(log')))) =>
          /\ ParaOf(doc', Len(log')) = OrigPara(Len(log'))
          /\ doc' = doc
          /\ ~Last.called
          /\ ~Last.looked
          /\ cache' = cache]_vars

C5_Witness ==
    \E i \in 2..Len(log) :
        /\ OrigPara(i) = <<"\t", " ">>
        /\ Written(i) = <<"\t", " ">>
        /\ ~log[i].called
        /\ Succeeded(log[i - 1])
        /\ DOMAIN cache # {}

(***************************************************************************)
(* C8: no failed translation ends the operation: the loops run over every  *)
(* paragraph, also those after a failed one, and the saved document has    *)
(* the input's paragraphs, as many and in the same order, each kept or     *)
(* translated.                                                             *)
(***************************************************************************)
C8_NeverAborted ==
    /\ tpc \in {"body", "cells", "saved"} =>
          /\ Len(doc.body) = Len(Orig.body)
          /\ Len(doc.cells) = Len(Orig.cells)
          /\ Len(log) <= Total
          /\ \A i \in 1..Total :
                /\ i <= Len(log) =>
                      /\ log[i].text = OrigPara(i)
                      /\ \/ Written(i) = OrigPara(i)
                         \/ \E k \in 1..i : /\ Succeeded(log[k])
                                            /\ Written(i) = Padded(OrigPara(i), log[k].outcome.val)
                /\ i > Len(log) => Written(i) = OrigPara(i)
    /\ tpc = "saved" => Len(log) = Total /\ files[t_paths.output] = doc
    /\ (tpc = "failed" /\ log # <<>>) => Len(log) = Total

C8_Witness ==
    /\ tpc = "saved"
    /\ \E i \in 1..(Len(log) - 1) :
          /\ Failed(log[i])
          /\ Succeeded(log[i + 1])
          /\ Written(i) = OrigPara(i)
          /\ Written(i + 1) # OrigPara(i + 1)

(***************************************************************************)
(* C6: with both pages selected and end < start the run shows the error    *)
(* and stops there: no temp file, no conversion, translation or rendering, *)
(* no download; with end >= start, or a bound not selected, this check     *)
(* rejects nothing.                                                        *)
(***************************************************************************)
C6_RangeRejected ==
    /\ pc # "button" =>
          (pc = "rejected" <=>
              (ui.use_start /\ ui.use_end /\ ui.end_page < ui.start_page))
    /\ error <=> pc = "rejected"
    /\ pc = "rejected" =>
          /\ files = NoFiles
          /\ steps = <<>>
          /\ convert_call = None
          /\ download = None
          /\ tpc = "idle"
          /\ log = <<>>

C6_Witness ==
    /\ pc = "rejected"
    /\ error
    /\ ui.start_page = 3
    /\ ui.end_page = 2
    /\ ui.translate_enabled
    /\ files = NoFiles

(***************************************************************************)
(* C7: the converter gets start = max(start_page - 1, 0) exactly when      *)
(* start_page is given and end = max(end_page - 1, 0) exactly when         *)
(* end_page is given; for start_page >= 1 and end_page >= start_page these *)
(* are start_page - 1 and end_page - 1, not negative, start <= end.        *)
(***************************************************************************)
ClampedPred(n) == IF n >= 1 THEN n - 1 ELSE 0

C7_ZeroBasedRange ==
    convert_call # None =>
        LET k == Get(convert_call) IN
        /\ k.start = None <=> sp = None
        /\ k.end = None <=> ep = None
        /\ sp # None => Get(k.start) = ClampedPred(Get(sp)) /\ Get(k.start) >= 0
        /\ ep # None => Get(k.end) = ClampedPred(Get(ep)) /\ Get(k.end) >= 0
        /\ (sp # None /\ Get(sp) >= 1) => Get(k.start) = Get(sp) - 1
        /\ (ep # None /\ Get(ep) >= 1) => Get(k.end) = Get(ep) - 1
        /\ (sp # None /\ ep # None /\ Get(sp) >= 1 /\ Get(ep) >= Get(sp)) =>
              Get(k.start) <= Get(k.end)
        /\ (sp = Some(1) /\ ep = None) => k.start = Some(0) /\ k.end = None
        /\ (sp = Some(1) /\ ep = Some(1)) => k.start = Some(0) /\ k.end = Some(0)

C7_Witness ==
    /\ entry = "pdf_to_docx"
    /\ sp = Some(3)
    /\ ep = Some(5)
    /\ convert_call # None
    /\ Get(convert_call).start = Some(2)
    /\ Get(convert_call).end = Some(4)

(***************************************************************************)
(* C9, as claimed: the offered name ends in .pdf with the PDF MIME type or *)
(* in .docx, in any case of letters, with the DOCX MIME type; and it holds *)
(* "_translated" exactly when translation is on and the output is DOCX.    *)
(***************************************************************************)
Contains(s, sub) ==
    \E i \in 0..(Len(s) - Len(sub)) : SubSeq(s, i + 1, i + Len(sub)) = sub

ExtensionMatchesMime(d) ==
    \/ EndsWith(d.file_name, DotPdf) /\ d.mime = PdfMime
    \/ EndsWith(Lower(d.file_name), DotDocx) /\ d.mime = DocxMime

C9_MarkerIffTranslatedDocx ==
    download # None =>
        LET d == Get(download) IN
        /\ ExtensionMatchesMime(d)
        /\ Contains(d.file_name, Marker) <=>
              (ui.translate_enabled /\ d.mime = DocxMime)

(***************************************************************************)
(* C9, amended: extension and MIME type agree as claimed; with translation *)
(* on and DOCX output the name ends in "_translated.docx"; in every other  *)
(* case the name holds "_translated" only if the name the user typed does. *)
(***************************************************************************)
C9_NameAndMime ==
    download # None =>
        LET d == Get(download) IN
        /\ ExtensionMatchesMime(d)
        /\ d.mime = PdfMime <=> (ui.translate_enabled /\ ui.convert_translated_to_pdf)
        /\ (ui.translate_enabled /\ d.mime = DocxMime) =>
              EndsWith(d.file_name, Marker \o DotDocx)
        /\ (~(ui.translate_enabled /\ d.mime = DocxMime) /\ Contains(d.file_name, Marker)) =>
              Contains(ui.output_filename, Marker)

C9_Witness ==
    /\ download # None
    /\ ui.output_filename = <<"R", ".", "D", "O", "C", "X">>
    /\ ui.translate_enabled
    /\ ~ui.convert_translated_to_pdf
    /\ Get(download).file_name = <<"R">> \o Marker \o DotDocx
    /\ Get(download).mime = DocxMime

(***************************************************************************)
(* C10: the steps of a run happen at most once each, in the order          *)
(* conversion, translation, rendering, download; a finished run has        *)
(* translated exactly when translation is on and rendered exactly when     *)
(* translation and render-to-PDF are both on (render-to-PDF alone gives a  *)
(* DOCX); what is rendered is the translated document.                     *)
(***************************************************************************)
Rank(step) ==
    CASE step = "pdf_to_docx" -> 1 [] step = "translate" -> 2
      [] step = "docx2pdf" -> 3 [] step = "download" -> 4
Did(step) == \E i \in 1..Len(steps) : steps[i] = step

C10_PipelineOrder ==
    /\ \A i, j \in 1..Len(steps) : i < j => Rank(steps[i]) < Rank(steps[j])
    /\ steps # <<>> => steps[1] = "pdf_to_docx"
    /\ Did("translate") => ui.translate_enabled
    /\ Did("docx2pdf") =>
          /\ ui.translate_enabled /\ ui.convert_translated_to_pdf
          /\ Did("translate")
          /\ tpc = "saved"
    /\ download # None <=> pc = "done"
    /\ pc = "done" =>
          /\ Did("pdf_to_docx")
          /\ Did("translate") <=> ui.translate_enabled
          /\ Did("docx2pdf") <=> (ui.translate_enabled /\ ui.convert_translated_to_pdf)
          /\ steps[Len(steps)] = "download"
          /\ (ui.convert_translated_to_pdf /\ ~ui.translate_enabled) =>
                Get(download).mime = DocxMime /\ Get(download).data.kind = "docx"
    /\ ("tmp_pdf_out" \in DOMAIN files /\ files["tmp_pdf_out"].kind = "pdf") =>
          /\ files["tmp_pdf_out"].src = "tmp_translated_docx"
          /\ files["tmp_pdf_out"].of = files["tmp_translated_docx"]
          /\ files["tmp_pdf_out"].of = doc
          /\ Get(download).data = files["tmp_pdf_out"]

C10_Witness ==
    /\ pc = "done"
    /\ steps = <<"pdf_to_docx", "translate", "docx2pdf", "download">>
    /\ Get(download).data.kind = "pdf"
    /\ Get(download).data.of = doc
    /\ doc # files["tmp_docx"]

====
